---- MODULE Spec2Model ----
(***************************************************************************)
(* A model of the websocket session layer of DietPi-Dashboard's backend:   *)
(*   - validate_token      (socket_handlers.rs)                            *)
(*   - socket_handler      (socket_handlers.rs): reader task, request      *)
(*                          channel, dispatch loop, page handlers          *)
(*   - term_handler        (socket_handlers.rs, and the earlier            *)
(*                          terminal.rs)                                   *)
(*   - file_handler        (socket_handlers.rs): upload state, `dl` chunks *)
(* Each part has its own specification; the variables of the other parts   *)
(* are parked while it runs.                                               *)
(***************************************************************************)
EXTENDS Integers, Sequences, FiniteSets, TLC

VARIABLES
    \* ---- configuration and clock
    pass,           \* CONFIG.pass
    now,            \* the clock validate_token reads
    \* ---- validate_token on its own
    v_token,        \* the token handed to validate_token
    v_done,         \* validate_token has returned
    v_result,       \* what it returned
    \* ---- socket_handler
    socket_recv,    \* inbound frames sent by the client and not yet read
    nsent,          \* number of frames the client has sent
    hungup,         \* the client has closed / dropped the connection
    reader,         \* reader task: "recv" | "send" | "done"
    req,            \* the Request the reader is blocked sending
    data_chan,      \* mpsc::channel(1): data_send -> data_recv
    sender_dropped, \* data_send dropped (reader task ended)
    notified,       \* ids of handlers whose quit.notified() has fired
    router,         \* socket_handler body: "global" | "recv" | "handler" | "returned"
    running,        \* page handlers started and not yet returned
    nextId,         \* id of the next handler instance
    out,            \* outbound frames (runs of one handler's snapshots collapsed)
    fwd,            \* Requests read by a handler from data_recv
    want,           \* page of the last page-switch read while another handler was active
    rejected,       \* number of Requests read whose token failed
    notices,        \* number of {error:true} frames sent for them
    denied,         \* the last Request read with a token failed validate_token
    relogin,        \* a valid page-switch to "/" was read after a rejection, "/" not yet started
    read_log,       \* the frames the reader task has read, in order
    auth_cancelled, \* the handlers active when a Request was rejected, each with the
                    \* number of {error:true} frames written before the rejection
    \* ---- file_handler
    f_pc,           \* "loop" | "done"
    f_n,            \* number of frames file_handler has read
    buf,            \* upload_data.buf (one element per binary frame)
    max_size,       \* upload_data.max_size
    current_size,   \* upload_data.current_size
    path,           \* upload_data.path
    fs,             \* the files file_handler has written
    f_out,          \* outbound frames of the file endpoint
    up_seen,        \* an `up` command has been accepted
    up_n,           \* the chunk count the last accepted `up` declared
    up_path,        \* the path the last accepted `up` named
    pre_bins,       \* binary frames received before the last accepted `up`
    since_up,       \* binary frames received after the last accepted `up`
    wrote,          \* the write to disk made since the last accepted `up`
    f_last,         \* what file_handler did with the last frame it read
    f_tok,          \* the token of the last frame: "valid", "invalid", or "none" (no command)
    disk,           \* the file `open` and `save` name: its state and its bytes
    opened,         \* the text frame the last successful `open` sent
    \* ---- the `dl` arm of file_handler_helper
    dl_pc,          \* "start" | "chunks" | "done"
    dl_len,         \* buf.len() of the archive
    dl_size,        \* the announced size
    dl_sent,        \* the binary frames sent, as byte ranges <<lo, hi>> of the archive
    \* ---- term_handler (socket_handlers.rs)
    t_pc,           \* "auth" | "spawn" | "loop" | "reap" | "wait" | "closed"
    t_n,            \* number of frames term_handler has received
    t_eof,          \* socket_recv has ended: next() yields None from now on
    t_first,        \* how the authentication step ended
    child,          \* "none" | "running" | "exited" | "reaped"
    winsize,        \* the pseudoterminal's window size
    pty_in,         \* what has been written to the pseudoterminal
    exits,          \* how often "exit\n" was written (2: twice or more)
    r_pc,           \* read pump: "idle" | "read" | "send" | "done"
    t_chan,         \* number of blocks in mpsc::channel(2)
    quit_permit,    \* quit_send.notify_one() has stored a permit
    t_last,         \* the last frame the select loop handled, and what it did with it
    r_last,         \* how the read pump's last pseudoterminal read ended
    stop_by,        \* the pump that first detected termination: "none" | "reader" | "writer"
    ops_after,      \* pseudoterminal reads/writes by the other pump since then (2: two or more)
    \* ---- term_handler (terminal.rs)
    o_main,         \* term_handler: "join" | "closed" | "panicked"
    pty_writer,     \* the pty_writer task: "recv" | "done" | "panicked"
    pty_reader,     \* the pty_reader task: "read" | "done" | "panicked"
    stop_thread,    \* the AtomicBool shared as stop_thread_write and stop_thread_read
    o_n,            \* number of frames pty_writer has received
    o_eof,          \* socket_recv has ended
    o_child,        \* "none" | "running" | "exited" | "killed"
    o_winsize,      \* the pseudoterminal's window size
    o_pty_in,       \* what has been written to the pseudoterminal
    o_last,         \* the last frame pty_writer handled, and what it did with it
    \* ---- create_zip_file
    z_pc,           \* "walk" | "done" | "failed"
    z_tree,         \* the entries WalkDir yields, in order: what each one is
    z_i,            \* number of entries taken from the walk
    zip_file,       \* the entries written to the archive
    file_buf        \* file_buf: the bytes read_to_end appends to

cfgVars    == <<pass, now>>
tokenVars  == <<v_token, v_done, v_result>>
routerVars == <<socket_recv, nsent, hungup, reader, req, data_chan, sender_dropped,
                notified, router, running, nextId, out, fwd, want, rejected,
                notices, denied, relogin, read_log, auth_cancelled>>
fileVars   == <<f_pc, f_n, buf, max_size, current_size, path, fs, f_out, up_seen, up_n,
                up_path, pre_bins, since_up, wrote, f_last, f_tok, disk, opened>>
dlVars     == <<dl_pc, dl_len, dl_size, dl_sent>>
termVars   == <<t_pc, t_n, t_eof, t_first, child, winsize, pty_in, exits, r_pc, t_chan,
                quit_permit, t_last, r_last, stop_by, ops_after>>
oldVars    == <<o_main, pty_writer, pty_reader, stop_thread, o_n, o_eof, o_child, o_winsize,
                o_pty_in, o_last>>
zipVars    == <<z_pc, z_tree, z_i, zip_file, file_buf>>
vars == <<cfgVars, tokenVars, routerVars, fileVars, dlVars, termVars, oldVars, zipVars>>
notToken  == <<routerVars, fileVars, dlVars, termVars, oldVars, zipVars>>
notRouter == <<cfgVars, tokenVars, fileVars, dlVars, termVars, oldVars, zipVars>>
notFile   == <<tokenVars, routerVars, dlVars, termVars, oldVars, zipVars>>
notDl     == <<cfgVars, tokenVars, routerVars, fileVars, termVars, oldVars, zipVars>>
notTerm   == <<cfgVars, tokenVars, routerVars, fileVars, dlVars, oldVars, zipVars>>
notOld    == <<cfgVars, tokenVars, routerVars, fileVars, dlVars, termVars, zipVars>>
notZip    == <<cfgVars, tokenVars, routerVars, fileVars, dlVars, termVars, oldVars>>

-----------------------------------------------------------------------------
(* Bounds *)
MaxNow == 2
MaxFrames == 3
MaxFileFrames == 4
MaxChunks == 4
MaxSlack == 2
MaxTermFrames == 3
MaxEntries == 3

-----------------------------------------------------------------------------
(* validate_token: jsonwebtoken::decode with Validation::new(HS256),       *)
(* issuer "DietPi Dashboard", required claims exp and iat.                 *)

Issuer == "DietPi Dashboard"

\* Validation::new leaves `leeway` at the library's default of 60 seconds.
Leeway == 60

NowVals == (Leeway + 1)..(Leeway + 1 + MaxNow)

\* exp relative to the clock: around now - leeway and around now.
ExpOffsets == {0 - Leeway - 1, 0 - Leeway, 1 - Leeway, -1, 0, 1}

Absent == -1

\* A token: whether it decodes as an HS256 JWT at all, the key that signed
\* it, and its claims (Absent: the claim is missing).
Tokens(t) ==
    [jwt : {TRUE}, key : {"secret", "other"}, iss : {Issuer, "other"},
     exp : {t + d : d \in ExpOffsets} \cup {Absent}, iat : {0, Absent}]
    \cup {[jwt |-> FALSE, key |-> "other", iss |-> "other", exp |-> Absent, iat |-> Absent]}

\* String::new(), or any text that is not a JWT.
TokEmpty == [jwt |-> FALSE, key |-> "other", iss |-> "other", exp |-> Absent, iat |-> Absent]

\* A token as the login route issues it, not yet expired for any clock value.
TokGood == [jwt |-> TRUE, key |-> "secret", iss |-> Issuer,
            exp |-> Leeway + MaxNow + 2, iat |-> 0]

\* validate_exp: the token is rejected when exp < now - leeway.
ExpiryOk(exp, t) == exp >= t - Leeway

validate_token(token, t) ==
    /\ token.jwt
    /\ token.key = "secret"
    /\ token.exp # Absent /\ token.iat # Absent
    /\ ExpiryOk(token.exp, t)
    /\ token.iss = Issuer

InitToken ==
    /\ now \in NowVals
    /\ pass = TRUE
    /\ v_token \in Tokens(now)
    /\ v_done = FALSE
    /\ v_result = FALSE

ParkToken ==
    /\ v_token = TokEmpty
    /\ v_done = TRUE
    /\ v_result = FALSE

Validate ==
    /\ ~v_done
    /\ v_done' = TRUE
    /\ v_result' = validate_token(v_token, now)
    /\ UNCHANGED <<v_token, cfgVars>>

-----------------------------------------------------------------------------
(* file_handler: the file endpoint, upload side.                           *)

\* Paths a client names; "" is UploadData::default().path, which no write succeeds on.
UpPaths == {"a", "b"}

NoFile == <<"nofile">>

NoWrite == [path |-> "", data |-> <<>>, after |-> 0, fresh |-> TRUE, ok |-> FALSE, made |-> FALSE]

\* The arguments a client gives `up`: decimal strings and one that is none.
UpArgs == {<<"0">>, <<"1">>, <<"2">>, <<"+", "2">>, <<"x">>, <<"1", "x">>, <<>>}

ParseErr == -1

DigitVal(c) ==
    CASE c = "0" -> 0 [] c = "1" -> 1 [] c = "2" -> 2 [] c = "3" -> 3 [] c = "4" -> 4
      [] c = "5" -> 5 [] c = "6" -> 6 [] c = "7" -> 7 [] c = "8" -> 8 [] c = "9" -> 9
      [] OTHER -> ParseErr

RECURSIVE ParseDigits(_, _)
ParseDigits(s, acc) ==
    IF s = <<>> THEN acc
    ELSE IF DigitVal(Head(s)) = ParseErr THEN ParseErr
    ELSE ParseDigits(Tail(s), acc * 10 + DigitVal(Head(s)))

\* req.arg.parse::<usize>(): digits after an optional "+"; ParseErr for the
\* empty string, a lone sign or a non-digit.
ParseUsize(s) ==
    IF s = <<>> THEN ParseErr
    ELSE IF Head(s) = "+" THEN (IF Tail(s) = <<>> THEN ParseErr ELSE ParseDigits(Tail(s), 0))
    ELSE ParseDigits(s, 0)

\* Bytes of a file: ASCII bytes, the two bytes of a two-byte UTF-8 sequence,
\* and a byte no UTF-8 text contains.
Ascii == {"a", "r", "n"}

\* What the file `open` and `save` name holds: valid UTF-8 (empty, ASCII with
\* a CR LF, a two-byte character) and not (a cut sequence, a stray byte).
DiskBytes == {<<>>, <<"a", "r", "n">>, <<"C3", "A9">>, <<"a", "C3">>, <<"FF">>}

Disks ==
    {[st |-> "ok", bytes |-> b] : b \in DiskBytes}
    \cup {[st |-> "missing", bytes |-> <<>>], [st |-> "noperm", bytes |-> <<"a">>]}

DecodeErr == <<"!">>

\* String::from_utf8_lossy: a byte that is not valid UTF-8 becomes U+FFFD.
RECURSIVE Utf8DecodeLossy(_)
Utf8DecodeLossy(b) ==
    IF b = <<>> THEN <<>>
    ELSE IF Head(b) \in Ascii THEN <<Head(b)>> \o Utf8DecodeLossy(Tail(b))
    ELSE IF Head(b) = "C3" /\ Len(b) >= 2 /\ b[2] = "A9"
         THEN <<"e'">> \o Utf8DecodeLossy(Tail(Tail(b)))
    ELSE <<"?">> \o Utf8DecodeLossy(Tail(b))

\* std::fs::read_to_string: the text the bytes encode, DecodeErr when they
\* are not valid UTF-8.
RECURSIVE Utf8Decode(_)
Utf8Decode(b) ==
    IF b = <<>> THEN <<>>
    ELSE IF Head(b) \in Ascii
         THEN IF Utf8Decode(Tail(b)) = DecodeErr THEN DecodeErr
              ELSE <<Head(b)>> \o Utf8Decode(Tail(b))
    ELSE IF Head(b) = "C3" /\ Len(b) >= 2 /\ b[2] = "A9"
         THEN IF Utf8Decode(Tail(Tail(b))) = DecodeErr THEN DecodeErr
              ELSE <<"e'">> \o Utf8Decode(Tail(Tail(b)))
    ELSE DecodeErr

\* The bytes std::fs::write(&req.path, &req.arg) writes for a text.
RECURSIVE Utf8Encode(_)
Utf8Encode(t) ==
    IF t = <<>> THEN <<>>
    ELSE IF Head(t) = "e'" THEN <<"C3", "A9">> \o Utf8Encode(Tail(t))
    ELSE <<Head(t)>> \o Utf8Encode(Tail(t))

\* The texts a client gives `save`: texts of its own, and the text the last
\* `open` sent it.
SaveArgs == {<<>>, <<"a", "r", "n">>, <<"e'">>} \cup {opened.text}

NotOpened == [got |-> FALSE, text |-> <<>>, orig |-> <<>>]

\* The chunk payloads a client sends.
ChunkData == {1, 2}

InitFile ==
    /\ f_pc = "loop"
    /\ f_n = 0
    /\ buf = <<>>
    /\ max_size = 0
    /\ current_size = 0
    /\ path = ""
    /\ fs = [p \in UpPaths |-> NoFile]
    /\ f_out = <<>>
    /\ up_seen = FALSE
    /\ up_n = 0
    /\ up_path = ""
    /\ pre_bins = 0
    /\ since_up = <<>>
    /\ wrote = NoWrite
    /\ f_last = "none"
    /\ f_tok = "none"
    /\ disk \in Disks
    /\ opened = NotOpened

ParkFile ==
    /\ f_pc = "done"
    /\ f_n = 0
    /\ buf = <<>>
    /\ max_size = 0
    /\ current_size = 0
    /\ path = ""
    /\ fs = [p \in UpPaths |-> NoFile]
    /\ f_out = <<>>
    /\ up_seen = FALSE
    /\ up_n = 0
    /\ up_path = ""
    /\ pre_bins = 0
    /\ since_up = <<>>
    /\ wrote = NoWrite
    /\ f_last = "none"
    /\ f_tok = "none"
    /\ disk = [st |-> "missing", bytes |-> <<>>]
    /\ opened = NotOpened

\* socket.next() yields another frame.
FileNext ==
    /\ f_pc = "loop"
    /\ f_n < MaxFileFrames
    /\ f_n' = f_n + 1

\* while let Some(Ok(data)) fails, or data.is_close().
FileEnd ==
    /\ FileNext
    /\ f_pc' = "done"
    /\ UNCHANGED <<buf, max_size, current_size, path, fs, f_out, up_seen, up_n, up_path,
                   pre_bins, since_up, wrote>>
    /\ f_last' = "end"
    /\ f_tok' = "none"
    /\ UNCHANGED <<disk, opened>>
    /\ UNCHANGED notFile
    /\ UNCHANGED cfgVars

\* The upload is complete when the count of binary frames equals max_size.
UploadComplete(count, max) == count = max

\* A binary frame: append, count, and commit on the frame that completes the count.
\* std::fs::write may fail (ok = FALSE); the notice is sent either way.
FileBinary(d, ok) ==
    /\ FileNext
    /\ buf' = Append(buf, d)
    /\ current_size' = current_size + 1
    /\ since_up' = IF up_seen THEN Append(since_up, d) ELSE since_up
    /\ IF UploadComplete(current_size + 1, max_size)
       THEN /\ fs' = IF ok /\ path \in UpPaths THEN [fs EXCEPT ![path] = Append(buf, d)] ELSE fs
            /\ f_out' = Append(f_out, "finished")
            /\ wrote' = [path |-> path, data |-> Append(buf, d),
                         after |-> IF up_seen THEN Len(since_up) + 1 ELSE 0,
                         fresh |-> (up_seen /\ Append(buf, d) = Append(since_up, d)),
                         ok |-> (ok /\ path \in UpPaths), made |-> TRUE]
       ELSE /\ ok
            /\ UNCHANGED <<fs, f_out, wrote>>
    /\ UNCHANGED <<f_pc, max_size, path, up_seen, up_n, up_path, pre_bins>>
    /\ f_last' = "binary"
    /\ f_tok' = "none"
    /\ UNCHANGED <<disk, opened>>
    /\ UNCHANGED notFile
    /\ UNCHANGED cfgVars

\* A frame that is not text, or text that is not a FileRequest: continue.
FileGarbage ==
    /\ FileNext
    /\ UNCHANGED <<f_pc, buf, max_size, current_size, path, fs, f_out, up_seen, up_n,
                   up_path, pre_bins, since_up, wrote>>
    /\ f_last' = "garbage"
    /\ f_tok' = "none"
    /\ UNCHANGED <<disk, opened>>
    /\ UNCHANGED notFile
    /\ UNCHANGED cfgVars

\* What validate_token(&req.token) says of the token of a FileRequest.
TokenVerdict(token) == IF validate_token(token, now) THEN "valid" ELSE "invalid"

\* CONFIG.pass && !validate_token(&req.token): continue.
FileUnauthorized(token) ==
    /\ FileNext
    /\ pass /\ ~validate_token(token, now)
    /\ UNCHANGED <<f_pc, buf, max_size, current_size, path, fs, f_out, up_seen, up_n,
                   up_path, pre_bins, since_up, wrote>>
    /\ f_last' = "unauthorized"
    /\ f_tok' = TokenVerdict(token)
    /\ UNCHANGED <<disk, opened>>
    /\ UNCHANGED notFile
    /\ UNCHANGED cfgVars

\* What `up` does to UploadData: it assigns max_size and path and nothing else.
UpState(b, c) == <<b, c>>

\* "up" with a decimal argument, were it run without the token check.
FileUpUnchecked(p, arg, token) ==
    /\ FileNext
    /\ ParseUsize(arg) # ParseErr
    /\ max_size' = ParseUsize(arg)
    /\ path' = p
    /\ buf' = UpState(buf, current_size)[1]
    /\ current_size' = UpState(buf, current_size)[2]
    /\ up_seen' = TRUE
    /\ up_n' = ParseUsize(arg)
    /\ up_path' = p
    /\ pre_bins' = pre_bins + Len(since_up) + (IF up_seen THEN 0 ELSE current_size)
    /\ since_up' = <<>>
    /\ wrote' = NoWrite
    /\ UNCHANGED <<f_pc, fs, f_out>>
    /\ f_last' = "up"
    /\ f_tok' = TokenVerdict(token)
    /\ UNCHANGED <<disk, opened>>
    /\ UNCHANGED notFile
    /\ UNCHANGED cfgVars

\* "up" with a decimal argument.
FileUp(p, arg, token) ==
    /\ FileNext
    /\ ~(pass /\ ~validate_token(token, now))
    /\ ParseUsize(arg) # ParseErr
    /\ max_size' = ParseUsize(arg)
    /\ path' = p
    /\ buf' = UpState(buf, current_size)[1]
    /\ current_size' = UpState(buf, current_size)[2]
    /\ up_seen' = TRUE
    /\ up_n' = ParseUsize(arg)
    /\ up_path' = p
    /\ pre_bins' = pre_bins + Len(since_up) + (IF up_seen THEN 0 ELSE current_size)
    /\ since_up' = <<>>
    /\ wrote' = NoWrite
    /\ UNCHANGED <<f_pc, fs, f_out>>
    /\ f_last' = "up"
    /\ f_tok' = TokenVerdict(token)
    /\ UNCHANGED <<disk, opened>>
    /\ UNCHANGED notFile
    /\ UNCHANGED cfgVars

\* "up" whose argument does not parse, were the path assigned before the
\* argument is parsed.
FileUpInvalidPartial(p, arg, token) ==
    /\ FileNext
    /\ ~(pass /\ ~validate_token(token, now))
    /\ ParseUsize(arg) = ParseErr
    /\ path' = p
    /\ UNCHANGED <<f_pc, buf, max_size, current_size, fs, f_out, up_seen, up_n,
                   up_path, pre_bins, since_up, wrote>>
    /\ f_last' = "up_invalid"
    /\ f_tok' = TokenVerdict(token)
    /\ UNCHANGED <<disk, opened>>
    /\ UNCHANGED notFile
    /\ UNCHANGED cfgVars

\* "up" whose argument does not parse: the `?` leaves before anything is assigned.
FileUpInvalid(p, arg, token) ==
    /\ FileNext
    /\ ~(pass /\ ~validate_token(token, now))
    /\ ParseUsize(arg) = ParseErr
    /\ UNCHANGED <<f_pc, buf, max_size, current_size, path, fs, f_out, up_seen, up_n,
                   up_path, pre_bins, since_up, wrote>>
    /\ f_last' = "up_invalid"
    /\ f_tok' = TokenVerdict(token)
    /\ UNCHANGED <<disk, opened>>
    /\ UNCHANGED notFile
    /\ UNCHANGED cfgVars

\* "open": read_to_string succeeds and the text is sent as a text frame.
FileOpen(token) ==
    /\ FileNext
    /\ ~(pass /\ ~validate_token(token, now))
    /\ disk.st = "ok"
    /\ Utf8Decode(disk.bytes) # DecodeErr
    /\ opened' = [got |-> TRUE, text |-> Utf8Decode(disk.bytes), orig |-> disk.bytes]
    /\ f_last' = "open"
    /\ f_tok' = TokenVerdict(token)
    /\ UNCHANGED <<f_pc, buf, max_size, current_size, path, fs, f_out, up_seen, up_n,
                   up_path, pre_bins, since_up, wrote, disk>>
    /\ UNCHANGED notFile
    /\ UNCHANGED cfgVars

\* "open": read_to_string fails (missing, no permission, not UTF-8): the `?`
\* returns the error and file_handler continues.
FileOpenFails(token) ==
    /\ FileNext
    /\ ~(pass /\ ~validate_token(token, now))
    /\ disk.st # "ok" \/ Utf8Decode(disk.bytes) = DecodeErr
    /\ f_last' = "open_failed"
    /\ f_tok' = TokenVerdict(token)
    /\ UNCHANGED <<f_pc, buf, max_size, current_size, path, fs, f_out, up_seen, up_n,
                   up_path, pre_bins, since_up, wrote, disk, opened>>
    /\ UNCHANGED notFile
    /\ UNCHANGED cfgVars

\* "save": std::fs::write(&req.path, &req.arg); it fails without permission.
FileSave(arg, token) ==
    /\ FileNext
    /\ ~(pass /\ ~validate_token(token, now))
    /\ IF disk.st = "noperm"
       THEN /\ disk' = disk
            /\ f_last' = "save_failed"
       ELSE /\ disk' = [st |-> "ok", bytes |-> Utf8Encode(arg)]
            /\ f_last' = (IF opened.got /\ arg = opened.text THEN "save_back" ELSE "save")
    /\ f_tok' = TokenVerdict(token)
    /\ UNCHANGED <<f_pc, buf, max_size, current_size, path, fs, f_out, up_seen, up_n,
                   up_path, pre_bins, since_up, wrote, opened>>
    /\ UNCHANGED notFile
    /\ UNCHANGED cfgVars

-----------------------------------------------------------------------------
(* file_handler_helper, "dl": the size announcement and the chunks.        *)

\* 1000 * 1000
ChunkBytes == 1000000

\* Archive lengths: around every multiple of the chunk size up to MaxChunks.
DlLens ==
    {n \in {k * ChunkBytes + d : k \in 0..MaxChunks, d \in (0 - MaxSlack)..MaxSlack} : n >= 0}

Min(a, b) == IF a < b THEN a ELSE b

ChunkCountFloor(len) == len \div ChunkBytes

\* (buf.len() as f64 / f64::from(1000 * 1000)).ceil() as usize; the division
\* is exact enough below 2^53 for ceil to give the integer ceiling.
ChunkCount(len) ==
    IF len % ChunkBytes = 0 THEN len \div ChunkBytes ELSE len \div ChunkBytes + 1

\* &buf[i * 1000 * 1000..((i + 1) * 1000 * 1000).min(buf.len())]
ChunkRange(i, len) == <<i * ChunkBytes, Min((i + 1) * ChunkBytes, len)>>

InitDl ==
    /\ dl_pc = "start"
    /\ dl_len \in DlLens
    /\ dl_size = 0
    /\ dl_sent = <<>>

ParkDl ==
    /\ dl_pc = "done"
    /\ dl_len = 0
    /\ dl_size = 0
    /\ dl_sent = <<>>

\* The FileSize frame.
DlAnnounce ==
    /\ dl_pc = "start"
    /\ dl_size' = ChunkCount(dl_len)
    /\ dl_pc' = "chunks"
    /\ UNCHANGED <<dl_len, dl_sent>>
    /\ UNCHANGED notDl

\* for i in 0..size: one binary frame.
DlChunk ==
    /\ dl_pc = "chunks"
    /\ Len(dl_sent) < dl_size
    /\ dl_sent' = Append(dl_sent, ChunkRange(Len(dl_sent), dl_len))
    /\ UNCHANGED <<dl_pc, dl_len, dl_size>>
    /\ UNCHANGED notDl

DlDone ==
    /\ dl_pc = "chunks"
    /\ Len(dl_sent) >= dl_size
    /\ dl_pc' = "done"
    /\ UNCHANGED <<dl_len, dl_size, dl_sent>>
    /\ UNCHANGED notDl

-----------------------------------------------------------------------------
(* socket_handler: the control endpoint.                                   *)

\* mpsc::channel(1)
ChanCap == 1

\* The pages the dispatch loop has a handler for, and the other match arms.
HandlerPages == {"/", "/process", "/software", "/management", "/service", "/browser"}

\* main_handler is called without data_recv; every other handler takes it.
TakesCommands(page) == page # "/"

Rq(page, token, cmd) ==
    [k |-> "req", page |-> page, token |-> token, cmd |-> cmd, syn |-> FALSE]

\* The Request the reader queues after a failed token (lines 55-60).
LoginRequest ==
    [k |-> "req", page |-> "/login", token |-> TokEmpty, cmd |-> "", syn |-> TRUE]

NoReq == [k |-> "none", page |-> "", token |-> TokEmpty, cmd |-> "", syn |-> FALSE]

\* A frame that is no Request: kind "garbage", "close" or "eof".
Ctl(kind) == [k |-> kind, page |-> "", token |-> TokEmpty, cmd |-> "", syn |-> FALSE]

\* What a client sends on the control endpoint: Requests, a frame that does
\* not decode ("garbage": a binary frame or malformed JSON), a close frame,
\* and the end of the stream ("eof": end of stream or a receive error).
ClientRequests ==
    { Rq("/", TokGood, ""), Rq("/process", TokGood, ""), Rq("/software", TokGood, ""),
      Rq("/process", TokGood, "kill"), Rq("/", TokEmpty, ""),
      Rq("/login", TokGood, ""), Rq("/other", TokGood, "") }

ClientFrames == ClientRequests \cup {Ctl("garbage"), Ctl("close"), Ctl("eof")}

IsRequest(f) == f.k = "req"

GlobalFrame == [k |-> "global", page |-> "", id |-> 0, den |-> FALSE]

ErrorFrame == [k |-> "error", page |-> "", id |-> 0, den |-> FALSE]

\* Append a snapshot of handler h to the outbound log; a run of snapshots of
\* one handler instance is kept as one entry (den: one of them was sent while
\* the last Request read had a failing token).
Emit(o, h, d) ==
    IF o # <<>> /\ o[Len(o)].k = "page" /\ o[Len(o)].id = h.id
    THEN [o EXCEPT ![Len(o)].den = @ \/ d]
    ELSE Append(o, [k |-> "page", page |-> h.page, id |-> h.id, den |-> d])

\* The number of {error:true} frames among the first n outbound frames.
ErrorsIn(o, n) == Cardinality({i \in 1..n : o[i].k = "error"})

InitRouter ==
    /\ socket_recv = <<>>
    /\ nsent = 0
    /\ hungup = FALSE
    /\ reader = "recv"
    /\ req = NoReq
    /\ data_chan = <<>>
    /\ sender_dropped = FALSE
    /\ notified = {}
    /\ router = "global"
    /\ running = {}
    /\ nextId = 1
    /\ out = <<>>
    /\ fwd = {}
    /\ want = "none"
    /\ rejected = 0
    /\ notices = 0
    /\ denied = FALSE
    /\ relogin = FALSE
    /\ read_log = <<>>
    /\ auth_cancelled = {}

ParkRouter ==
    /\ socket_recv = <<>>
    /\ nsent = 0
    /\ hungup = TRUE
    /\ reader = "done"
    /\ req = NoReq
    /\ data_chan = <<>>
    /\ sender_dropped = TRUE
    /\ notified = {}
    /\ router = "returned"
    /\ running = {}
    /\ nextId = 1
    /\ out = <<>>
    /\ fwd = {}
    /\ want = "none"
    /\ rejected = 0
    /\ notices = 0
    /\ denied = FALSE
    /\ relogin = FALSE
    /\ read_log = <<>>
    /\ auth_cancelled = {}

\* The client sends one more frame.
ClientSend(f) ==
    /\ ~hungup
    /\ nsent < MaxFrames
    /\ socket_recv' = Append(socket_recv, f)
    /\ nsent' = nsent + 1
    /\ hungup' = (f.k \in {"close", "eof"})
    /\ UNCHANGED <<reader, req, data_chan, sender_dropped, notified, router, running,
                   nextId, out, fwd, want, rejected, notices, denied, relogin>>
    /\ UNCHANGED <<read_log, auth_cancelled, notRouter>>

\* quit_send.notify_waiters(): wakes the handlers waiting on quit.notified()
\* now; no permit is kept for a handler that starts waiting later.
NotifyWaiters == notified \cup {h.id : h \in running}

\* data_send.send(r).await: completes at once while the channel has room,
\* otherwise the reader task is suspended holding r.
ChanSend(r) ==
    IF Len(data_chan) < ChanCap
    THEN /\ data_chan' = Append(data_chan, r)
         /\ reader' = "recv"
         /\ req' = NoReq
    ELSE /\ data_chan' = data_chan
         /\ reader' = "send"
         /\ req' = r

\* The token check without the CONFIG.pass && in front of it.
AuthorizedStrict(r) == validate_token(r.token, now)

\* CONFIG.pass && !validate_token(&req.token), negated.
Authorized(r) == ~(pass /\ ~validate_token(r.token, now))

\* while let Some(Ok(data)) = socket_recv.next().await fails, or is_close().
ReaderEnd ==
    /\ reader = "recv"
    /\ socket_recv # <<>>
    /\ Head(socket_recv).k \in {"close", "eof"}
    /\ socket_recv' = Tail(socket_recv)
    /\ reader' = "done"
    /\ sender_dropped' = TRUE
    /\ want' = "none"
    /\ UNCHANGED <<nsent, hungup, req, data_chan, notified, router, running, nextId,
                   out, fwd, rejected, notices, denied, relogin>>
    /\ read_log' = Append(read_log, Head(socket_recv))
    /\ UNCHANGED auth_cancelled
    /\ UNCHANGED notRouter

\* to_str() or deserialize_json fails and the reader task leaves its loop:
\* what `break` in place of `continue` would do.
ReaderSkipBreaks ==
    /\ reader = "recv"
    /\ socket_recv # <<>>
    /\ Head(socket_recv).k = "garbage"
    /\ socket_recv' = Tail(socket_recv)
    /\ reader' = "done"
    /\ sender_dropped' = TRUE
    /\ want' = "none"
    /\ UNCHANGED <<nsent, hungup, req, data_chan, notified, router, running, nextId,
                   out, fwd, rejected, notices, denied, relogin>>
    /\ read_log' = Append(read_log, Head(socket_recv))
    /\ UNCHANGED auth_cancelled
    /\ UNCHANGED notRouter

\* to_str() or deserialize_json fails: handle_error!(.., continue).
ReaderSkip ==
    /\ reader = "recv"
    /\ socket_recv # <<>>
    /\ Head(socket_recv).k = "garbage"
    /\ socket_recv' = Tail(socket_recv)
    /\ want' = "none"
    /\ UNCHANGED <<nsent, hungup, reader, req, data_chan, sender_dropped, notified,
                   router, running, nextId, out, fwd, rejected, notices, denied, relogin>>
    /\ read_log' = Append(read_log, Head(socket_recv))
    /\ UNCHANGED auth_cancelled
    /\ UNCHANGED notRouter

\* CONFIG.pass && !validate_token(&req.token): notify, queue "/login", continue.
ReaderReject ==
    /\ reader = "recv"
    /\ socket_recv # <<>>
    /\ IsRequest(Head(socket_recv))
    /\ ~Authorized(Head(socket_recv))
    /\ socket_recv' = Tail(socket_recv)
    /\ notified' = NotifyWaiters
    /\ ChanSend(LoginRequest)
    /\ rejected' = rejected + 1
    /\ denied' = TRUE
    /\ want' = "none"
    /\ UNCHANGED <<nsent, hungup, sender_dropped, router, running, nextId, out, fwd,
                   notices, relogin>>
    /\ read_log' = Append(read_log, Head(socket_recv))
    /\ auth_cancelled' = auth_cancelled \cup
            {[id |-> h.id, errs |-> ErrorsIn(out, Len(out))] : h \in running}
    /\ UNCHANGED notRouter

\* An authorized Request: notify when cmd is empty, then send it on.
ReaderForward ==
    /\ reader = "recv"
    /\ socket_recv # <<>>
    /\ IsRequest(Head(socket_recv))
    /\ Authorized(Head(socket_recv))
    /\ LET r == Head(socket_recv) IN
        /\ socket_recv' = Tail(socket_recv)
        /\ notified' = IF r.cmd = "" THEN NotifyWaiters ELSE notified
        /\ ChanSend(r)
        /\ want' = IF /\ r.cmd = ""
                      /\ r.page \in HandlerPages
                      /\ \E h \in running : h.page # r.page
                   THEN r.page ELSE "none"
        /\ relogin' = (relogin \/ (rejected > 0 /\ r.cmd = "" /\ r.page = "/"))
    /\ denied' = FALSE
    /\ UNCHANGED <<nsent, hungup, sender_dropped, router, running, nextId, out, fwd,
                   rejected, notices>>
    /\ read_log' = Append(read_log, Head(socket_recv))
    /\ UNCHANGED auth_cancelled
    /\ UNCHANGED notRouter

\* The suspended data_send.send(..).await completes once the channel has room.
ReaderSend ==
    /\ reader = "send"
    /\ Len(data_chan) < ChanCap
    /\ data_chan' = Append(data_chan, req)
    /\ reader' = "recv"
    /\ req' = NoReq
    /\ UNCHANGED <<socket_recv, nsent, hungup, sender_dropped, notified, router, running,
                   nextId, out, fwd, want, rejected, notices, denied, relogin>>
    /\ UNCHANGED <<read_log, auth_cancelled, notRouter>>

\* socket_send.send(global).await, before the dispatch loop.
RouterGlobal ==
    /\ router = "global"
    /\ out' = Append(out, GlobalFrame)
    /\ router' = "recv"
    /\ UNCHANGED <<socket_recv, nsent, hungup, reader, req, data_chan, sender_dropped,
                   notified, running, nextId, fwd, want, rejected, notices, denied, relogin>>
    /\ UNCHANGED <<read_log, auth_cancelled, notRouter>>

\* The dispatch loop is at data_recv.recv().await mid-handler: every handler call is
\* awaited, so this never holds in the loop as written.
DispatchReadySpawned == router \in {"recv", "handler"}

\* The dispatch loop is at data_recv.recv().await before the global snapshot
\* was sent: the send at lines 78-82 precedes the loop, so this never holds
\* in the code as written.
DispatchReadyEarly == router \in {"global", "recv"}

\* The dispatch loop is at data_recv.recv().await: the last handler call returned.
DispatchReady == router = "recv"

\* A handler arm: the handler is called and runs to its first suspension point.
DispatchHandler ==
    /\ DispatchReady
    /\ data_chan # <<>>
    /\ Head(data_chan).page \in HandlerPages
    /\ data_chan' = Tail(data_chan)
    /\ running' = running \cup {[id |-> nextId, page |-> Head(data_chan).page,
                                   cmd |-> Head(data_chan).cmd]}
    /\ nextId' = nextId + 1
    /\ router' = "handler"
    /\ want' = IF want = Head(data_chan).page THEN "none" ELSE want
    /\ relogin' = (relogin /\ Head(data_chan).page # "/")
    /\ UNCHANGED <<socket_recv, nsent, hungup, reader, req, sender_dropped, notified,
                   out, fwd, rejected, notices, denied>>
    /\ UNCHANGED <<read_log, auth_cancelled, notRouter>>

\* The "/login" arm: send {error:true}.
DispatchLogin ==
    /\ DispatchReady
    /\ data_chan # <<>>
    /\ Head(data_chan).page = "/login"
    /\ data_chan' = Tail(data_chan)
    /\ out' = Append(out, ErrorFrame)
    /\ notices' = IF Head(data_chan).syn THEN notices + 1 ELSE notices
    /\ UNCHANGED <<socket_recv, nsent, hungup, reader, req, sender_dropped, notified,
                   router, running, nextId, fwd, want, rejected, denied, relogin>>
    /\ UNCHANGED <<read_log, auth_cancelled, notRouter>>

\* The default arm: log and go on.
DispatchOther ==
    /\ DispatchReady
    /\ data_chan # <<>>
    /\ Head(data_chan).page \notin HandlerPages \cup {"/login"}
    /\ data_chan' = Tail(data_chan)
    /\ UNCHANGED <<socket_recv, nsent, hungup, reader, req, sender_dropped, notified,
                   router, running, nextId, out, fwd, want, rejected, notices, denied, relogin>>
    /\ UNCHANGED <<read_log, auth_cancelled, notRouter>>

\* data_recv.recv() returns None: every sender is dropped and the channel is empty.
RouterReturn ==
    /\ DispatchReady
    /\ router = "recv"
    /\ data_chan = <<>>
    /\ sender_dropped
    /\ router' = "returned"
    /\ UNCHANGED <<socket_recv, nsent, hungup, reader, req, data_chan, sender_dropped,
                   notified, running, nextId, out, fwd, want, rejected, notices, denied, relogin>>
    /\ UNCHANGED <<read_log, auth_cancelled, notRouter>>

\* A page handler (page_handlers): pushes a snapshot of its page.
HandlerTick(h) ==
    /\ h \in running
    /\ h.id \notin notified
    /\ out' = Emit(out, h, denied)
    /\ UNCHANGED <<socket_recv, nsent, hungup, reader, req, data_chan, sender_dropped,
                   notified, router, running, nextId, fwd, want, rejected, notices,
                   denied, relogin>>
    /\ UNCHANGED <<read_log, auth_cancelled, notRouter>>

\* A page handler that was given data_recv reads the next Request from it.
HandlerRecv(h) ==
    /\ h \in running
    /\ TakesCommands(h.page)
    /\ h.id \notin notified
    /\ data_chan # <<>>
    /\ data_chan' = Tail(data_chan)
    /\ fwd' = fwd \cup {[to |-> h.page, id |-> h.id, req |-> Head(data_chan)]}
    /\ UNCHANGED <<socket_recv, nsent, hungup, reader, req, sender_dropped, notified,
                   router, running, nextId, out, want, rejected, notices, denied, relogin>>
    /\ UNCHANGED <<read_log, auth_cancelled, notRouter>>

\* A page handler whose quit.notified() fired returns to the dispatch loop.
HandlerReturn(h) ==
    /\ h \in running
    /\ h.id \in notified
    /\ running' = running \ {h}
    /\ notified' = notified \ {h.id}
    /\ router' = "recv"
    /\ UNCHANGED <<socket_recv, nsent, hungup, reader, req, data_chan, sender_dropped,
                   nextId, out, fwd, want, rejected, notices, denied, relogin>>
    /\ UNCHANGED <<read_log, auth_cancelled, notRouter>>

ReaderTask == ReaderEnd \/ ReaderSkip \/ ReaderReject \/ ReaderForward \/ ReaderSend

DispatchLoop == RouterGlobal \/ DispatchHandler \/ DispatchLogin \/ DispatchOther \/ RouterReturn

HandlersTick == \E h \in running : HandlerTick(h)

HandlersRecv == \E h \in running : HandlerRecv(h)

HandlersReturn == \E h \in running : HandlerReturn(h)

-----------------------------------------------------------------------------
(* term_handler (socket_handlers.rs): the terminal endpoint.               *)

\* mpsc::channel(2)
TermChanCap == 2

\* TTYSize payloads that deserialize, and one that does not.
Sizes == {[cols |-> 80, rows |-> 24], [cols |-> 132, rows |-> 43]}

BadSize == [cols |-> -1, rows |-> -1]

NoSize == [row |-> 0, col |-> 0]

\* A frame of the terminal endpoint. k: "text" | "binary" | "close"; a text
\* frame starts with "token", with "size" or with neither.
TFrame(k, pre, tok, size) == [k |-> k, pre |-> pre, tok |-> tok, size |-> size]

TermFrames ==
    {TFrame("text", "token", t, BadSize) : t \in {TokGood, TokEmpty}}
    \cup {TFrame("text", "size", TokEmpty, z) : z \in Sizes \cup {BadSize}}
    \cup {TFrame("text", "other", TokEmpty, BadSize),
          TFrame("binary", "other", TokEmpty, BadSize),
          TFrame("close", "other", TokEmpty, BadSize)}

NoFrame == [f |-> TFrame("none", "other", TokEmpty, BadSize), did |-> "none"]

\* DeJson::deserialize_json::<TTYSize>(&data_str[4..])
SizeParses(z) == z \in Sizes

\* pty_process::Size::new(json.rows, json.cols)
PtySize(z) == [row |-> z.rows, col |-> z.cols]

\* The pump that detected termination first.
Detect(who) == IF stop_by = "none" THEN who ELSE stop_by

\* One more pseudoterminal read or write by pump `who`: counted when the
\* other pump has detected termination before.
OpsAfter(who) ==
    IF stop_by \notin {"none", who} /\ ops_after < 2 THEN ops_after + 1 ELSE ops_after

InitTerm ==
    /\ t_pc = (IF pass THEN "auth" ELSE "spawn")
    /\ t_n = 0
    /\ t_eof = FALSE
    /\ t_first = "none"
    /\ child = "none"
    /\ winsize = NoSize
    /\ pty_in = <<>>
    /\ exits = 0
    /\ r_pc = "done"
    /\ t_chan = 0
    /\ quit_permit = FALSE
    /\ t_last = NoFrame
    /\ r_last = "none"
    /\ stop_by = "none"
    /\ ops_after = 0

ParkTerm ==
    /\ t_pc = "closed"
    /\ t_n = 0
    /\ t_eof = TRUE
    /\ t_first = "none"
    /\ child = "none"
    /\ winsize = NoSize
    /\ pty_in = <<>>
    /\ exits = 0
    /\ r_pc = "done"
    /\ t_chan = 0
    /\ quit_permit = FALSE
    /\ t_last = NoFrame
    /\ r_last = "none"
    /\ stop_by = "none"
    /\ ops_after = 0

\* socket_recv.next() yields Some(Ok(frame)); the stream ends after a close frame.
TermNext(f) ==
    /\ ~t_eof
    /\ t_n < MaxTermFrames
    /\ t_n' = t_n + 1
    /\ t_eof' = (f.k = "close")

\* The first frame is "token" followed by a token validate_token accepts.
TermAuthOk(f) ==
    /\ t_pc = "auth"
    /\ TermNext(f)
    /\ f.k = "text" /\ f.pre = "token" /\ validate_token(f.tok, now)
    /\ t_pc' = "spawn"
    /\ t_first' = "token_ok"
    /\ UNCHANGED <<child, winsize, pty_in, exits, r_pc, t_chan, quit_permit, t_last>>
    /\ UNCHANGED <<r_last, stop_by, ops_after>>
    /\ UNCHANGED notTerm

\* Any other first frame, or a token that fails: return.
TermAuthFail(f) ==
    /\ t_pc = "auth"
    /\ TermNext(f)
    /\ ~(f.k = "text" /\ f.pre = "token" /\ validate_token(f.tok, now))
    /\ t_pc' = "closed"
    /\ t_first' = "refused"
    /\ UNCHANGED <<child, winsize, pty_in, exits, r_pc, t_chan, quit_permit, t_last>>
    /\ UNCHANGED <<r_last, stop_by, ops_after>>
    /\ UNCHANGED notTerm

\* socket_recv.next() yields None or Some(Err(_)): the `if let` does not match
\* and control falls through to the spawn.
TermAuthNoFrame ==
    /\ t_pc = "auth"
    /\ ~t_eof
    /\ t_eof' = TRUE
    /\ t_pc' = "spawn"
    /\ t_first' = "no_frame"
    /\ UNCHANGED <<t_n, child, winsize, pty_in, exits, r_pc, t_chan, quit_permit, t_last>>
    /\ UNCHANGED <<r_last, stop_by, ops_after>>
    /\ UNCHANGED notTerm

\* spawn_pty(None) succeeds; the read pump is spawned.
TermSpawn ==
    /\ t_pc = "spawn"
    /\ child' = "running"
    /\ r_pc' = "idle"
    /\ t_pc' = "loop"
    /\ UNCHANGED <<t_n, t_eof, t_first, winsize, pty_in, exits, t_chan, quit_permit, t_last>>
    /\ UNCHANGED <<r_last, stop_by, ops_after>>
    /\ UNCHANGED notTerm

\* spawn_pty(None) fails: handle_error!(.., return).
TermSpawnFails ==
    /\ t_pc = "spawn"
    /\ t_pc' = "closed"
    /\ UNCHANGED <<t_n, t_eof, t_first, child, winsize, pty_in, exits, r_pc, t_chan,
                   quit_permit, t_last>>
    /\ UNCHANGED <<r_last, stop_by, ops_after>>
    /\ UNCHANGED notTerm

\* The client drops the connection: next() yields None or Some(Err(_)) from now on.
TermHangup ==
    /\ t_pc = "loop"
    /\ ~t_eof
    /\ t_eof' = TRUE
    /\ UNCHANGED <<t_pc, t_n, t_first, child, winsize, pty_in, exits, r_pc, t_chan,
                   quit_permit, t_last>>
    /\ UNCHANGED <<r_last, stop_by, ops_after>>
    /\ UNCHANGED notTerm

\* The shell exits (it was told to, or on its own).
ShellExit ==
    /\ child = "running"
    /\ child' = "exited"
    /\ UNCHANGED <<t_pc, t_n, t_eof, t_first, winsize, pty_in, exits, r_pc, t_chan,
                   quit_permit, t_last>>
    /\ UNCHANGED <<r_last, stop_by, ops_after>>
    /\ UNCHANGED notTerm

\* Read pump: cmd_read.read_owned().await. The lock is free unless term_handler
\* holds the write lock for the reap.
PumpLock ==
    /\ r_pc = "idle"
    /\ t_pc # "wait"
    /\ r_pc' = "read"
    /\ UNCHANGED <<t_pc, t_n, t_eof, t_first, child, winsize, pty_in, exits, t_chan,
                   quit_permit, t_last>>
    /\ UNCHANGED <<r_last, stop_by, ops_after>>
    /\ UNCHANGED notTerm

\* Read pump: the blocking read returns Ok: bytes of the shell, or, once the
\* shell has exited, zero bytes where the platform reports end of file so.
PumpReadOk(eof) ==
    /\ r_pc = "read"
    /\ eof => child # "running"
    /\ r_pc' = "send"
    /\ UNCHANGED <<t_pc, t_n, t_eof, t_first, child, winsize, pty_in, exits, t_chan,
                   quit_permit, t_last>>
    /\ r_last' = (IF eof THEN "eof" ELSE "data")
    /\ ops_after' = OpsAfter("reader")
    /\ UNCHANGED stop_by
    /\ UNCHANGED notTerm

\* Read pump: the blocking read returns Err once the shell has exited:
\* quit_send.notify_one(), break.
PumpReadErr ==
    /\ r_pc = "read"
    /\ child # "running"
    /\ r_pc' = "done"
    /\ quit_permit' = TRUE
    /\ UNCHANGED <<t_pc, t_n, t_eof, t_first, child, winsize, pty_in, exits, t_chan, t_last>>
    /\ r_last' = "err"
    /\ stop_by' = Detect("reader")
    /\ ops_after' = OpsAfter("reader")
    /\ UNCHANGED notTerm

\* Read pump: send.send(data).await; Err once term_handler has returned.
PumpSend ==
    /\ r_pc = "send"
    /\ IF t_pc = "closed"
       THEN r_pc' = "done" /\ t_chan' = t_chan
       ELSE t_chan < TermChanCap /\ t_chan' = t_chan + 1 /\ r_pc' = "idle"
    /\ UNCHANGED <<t_pc, t_n, t_eof, t_first, child, winsize, pty_in, exits, quit_permit,
                   t_last>>
    /\ UNCHANGED <<r_last, stop_by, ops_after>>
    /\ UNCHANGED notTerm

\* select!: Some(data) = recv.recv(): forward one block as a binary frame; a
\* send on a connection that has gone may fail, which leaves the loop.
TermForward(ok) ==
    /\ t_pc = "loop"
    /\ t_chan > 0
    /\ t_chan' = t_chan - 1
    /\ ok \/ t_eof
    /\ t_pc' = (IF ok THEN "loop" ELSE "reap")
    /\ UNCHANGED <<t_n, t_eof, t_first, child, winsize, pty_in, exits, r_pc, quit_permit,
                   t_last>>
    /\ stop_by' = (IF ok THEN stop_by ELSE Detect("writer"))
    /\ UNCHANGED <<r_last, ops_after>>
    /\ UNCHANGED notTerm

\* select!: data_msg = socket_recv.next() is None or Some(Err(_)): write
\* "exit\n" to the pseudoterminal and continue the loop.
TermSocketClosed ==
    /\ t_pc = "loop"
    /\ t_eof
    /\ pty_in' = (IF child = "running" /\ (pty_in = <<>> \/ pty_in[Len(pty_in)] # "exit\n")
                  THEN Append(pty_in, "exit\n") ELSE pty_in)
    /\ exits' = (IF exits < 2 THEN exits + 1 ELSE exits)
    /\ UNCHANGED <<t_pc, t_n, t_eof, t_first, child, winsize, r_pc, t_chan, quit_permit,
                   t_last>>
    /\ stop_by' = Detect("writer")
    /\ ops_after' = OpsAfter("writer")
    /\ UNCHANGED r_last
    /\ UNCHANGED notTerm

\* select!: a text frame starting with "size" whose payload deserializes: resize_pty.
TermResize(f) ==
    /\ t_pc = "loop"
    /\ TermNext(f)
    /\ f.k = "text" /\ f.pre = "size" /\ SizeParses(f.size)
    /\ winsize' = PtySize(f.size)
    /\ t_last' = [f |-> f, did |-> "resize"]
    /\ UNCHANGED <<t_pc, t_first, child, pty_in, exits, r_pc, t_chan, quit_permit>>
    /\ UNCHANGED <<r_last, stop_by, ops_after>>
    /\ UNCHANGED notTerm

\* select!: a text frame starting with "size" whose payload does not
\* deserialize: handle_error!(.., continue).
TermBadResize(f) ==
    /\ t_pc = "loop"
    /\ TermNext(f)
    /\ f.k = "text" /\ f.pre = "size" /\ ~SizeParses(f.size)
    /\ t_last' = [f |-> f, did |-> "skip"]
    /\ UNCHANGED <<t_pc, t_first, child, winsize, pty_in, exits, r_pc, t_chan, quit_permit>>
    /\ UNCHANGED <<r_last, stop_by, ops_after>>
    /\ UNCHANGED notTerm

\* select!: any other text frame: to_str() succeeds, the prefix is not "size",
\* and the write in the else branch is not reached.
TermText(f) ==
    /\ t_pc = "loop"
    /\ TermNext(f)
    /\ f.k = "text" /\ f.pre # "size"
    /\ t_last' = [f |-> f, did |-> "none"]
    /\ UNCHANGED <<t_pc, t_first, child, winsize, pty_in, exits, r_pc, t_chan, quit_permit>>
    /\ UNCHANGED <<r_last, stop_by, ops_after>>
    /\ UNCHANGED notTerm

\* select!: a frame that is not text (binary, close): write_all(data.as_bytes());
\* the write fails once the shell has exited, which leaves the loop.
TermWrite(f) ==
    /\ t_pc = "loop"
    /\ TermNext(f)
    /\ f.k # "text"
    /\ IF child = "running"
       THEN /\ pty_in' = Append(pty_in, f.k)
            /\ t_pc' = "loop"
            /\ t_last' = [f |-> f, did |-> "write"]
       ELSE /\ pty_in' = pty_in
            /\ t_pc' = "reap"
            /\ t_last' = [f |-> f, did |-> "write_failed"]
    /\ UNCHANGED <<t_first, child, winsize, exits, r_pc, t_chan, quit_permit>>
    /\ stop_by' = (IF child = "running" THEN stop_by ELSE Detect("writer"))
    /\ ops_after' = OpsAfter("writer")
    /\ UNCHANGED r_last
    /\ UNCHANGED notTerm

\* select!: quit_recv.notified() takes the permit: break.
TermQuit ==
    /\ t_pc = "loop"
    /\ quit_permit
    /\ quit_permit' = FALSE
    /\ t_pc' = "reap"
    /\ UNCHANGED <<t_n, t_eof, t_first, child, winsize, pty_in, exits, r_pc, t_chan, t_last>>
    /\ UNCHANGED <<r_last, stop_by, ops_after>>
    /\ UNCHANGED notTerm

\* cmd.write().await: granted once the read pump does not hold the read lock.
TermReapLock ==
    /\ t_pc = "reap"
    /\ r_pc # "read"
    /\ t_pc' = "wait"
    /\ UNCHANGED <<t_n, t_eof, t_first, child, winsize, pty_in, exits, r_pc, t_chan,
                   quit_permit, t_last>>
    /\ UNCHANGED <<r_last, stop_by, ops_after>>
    /\ UNCHANGED notTerm

\* .wait() returns once the child has exited.
TermReap ==
    /\ t_pc = "wait"
    /\ child = "exited"
    /\ child' = "reaped"
    /\ t_pc' = "closed"
    /\ UNCHANGED <<t_n, t_eof, t_first, winsize, pty_in, exits, r_pc, t_chan, quit_permit,
                   t_last>>
    /\ UNCHANGED <<r_last, stop_by, ops_after>>
    /\ UNCHANGED notTerm

ReadPump == PumpLock \/ (\E eof \in BOOLEAN : PumpReadOk(eof)) \/ PumpReadErr \/ PumpSend

TermSelect ==
    \/ \E ok \in BOOLEAN : TermForward(ok)
    \/ TermSocketClosed
    \/ \E f \in TermFrames : TermResize(f) \/ TermBadResize(f) \/ TermText(f) \/ TermWrite(f)
    \/ TermQuit

-----------------------------------------------------------------------------
(* term_handler (terminal.rs): the terminal endpoint with its two tasks,   *)
(* pty_writer and pty_reader, joined by try_join!.                         *)

InitOld ==
    /\ o_main = "join"
    /\ pty_writer = "recv"
    /\ pty_reader = "read"
    /\ stop_thread = FALSE
    /\ o_n = 0
    /\ o_eof = FALSE
    /\ o_child = "running"
    /\ o_winsize = NoSize
    /\ o_pty_in = <<>>
    /\ o_last = NoFrame

ParkOld ==
    /\ o_main = "closed"
    /\ pty_writer = "done"
    /\ pty_reader = "done"
    /\ stop_thread = TRUE
    /\ o_n = 0
    /\ o_eof = TRUE
    /\ o_child = "none"
    /\ o_winsize = NoSize
    /\ o_pty_in = <<>>
    /\ o_last = NoFrame

\* while let Some(Ok(data)) = socket_recv.next().await
WriterNext(f) ==
    /\ pty_writer = "recv"
    /\ ~o_eof
    /\ o_n < MaxTermFrames
    /\ o_n' = o_n + 1
    /\ o_eof' = (f.k = "close")

\* After the loop: stop_thread_write.store(true), then write_all("exit").unwrap(),
\* which panics once the shell has exited.
WriterFinish ==
    /\ stop_thread' = TRUE
    /\ IF o_child = "running"
       THEN o_pty_in' = Append(o_pty_in, "exit") /\ pty_writer' = "done"
       ELSE o_pty_in' = o_pty_in /\ pty_writer' = "panicked"

\* A frame arrives after the stop flag was set: break.
WriterStopped(f) ==
    /\ WriterNext(f)
    /\ stop_thread
    /\ WriterFinish
    /\ o_last' = [f |-> f, did |-> "stop"]
    /\ UNCHANGED <<o_main, pty_reader, o_child, o_winsize>>
    /\ UNCHANGED notOld

\* A text frame starting with "size" whose payload deserializes: resize_pty, continue.
WriterResize(f) ==
    /\ WriterNext(f)
    /\ ~stop_thread
    /\ f.k = "text" /\ f.pre = "size" /\ SizeParses(f.size)
    /\ o_winsize' = PtySize(f.size)
    /\ o_last' = [f |-> f, did |-> "resize"]
    /\ UNCHANGED <<o_main, pty_writer, pty_reader, stop_thread, o_child, o_pty_in>>
    /\ UNCHANGED notOld

\* A text frame starting with "size" whose payload does not deserialize:
\* DeJson::deserialize_json(..).unwrap() panics.
WriterBadResize(f) ==
    /\ WriterNext(f)
    /\ ~stop_thread
    /\ f.k = "text" /\ f.pre = "size" /\ ~SizeParses(f.size)
    /\ pty_writer' = "panicked"
    /\ o_last' = [f |-> f, did |-> "panic"]
    /\ UNCHANGED <<o_main, pty_reader, stop_thread, o_child, o_winsize, o_pty_in>>
    /\ UNCHANGED notOld

\* Any other frame, text included: write_all(data.as_bytes()).unwrap(), which
\* panics once the shell has exited.
WriterWrite(f) ==
    /\ WriterNext(f)
    /\ ~stop_thread
    /\ ~(f.k = "text" /\ f.pre = "size")
    /\ IF o_child = "running"
       THEN /\ o_pty_in' = Append(o_pty_in, f.k)
            /\ pty_writer' = "recv"
            /\ o_last' = [f |-> f, did |-> "write"]
       ELSE /\ o_pty_in' = o_pty_in
            /\ pty_writer' = "panicked"
            /\ o_last' = [f |-> f, did |-> "write_failed"]
    /\ UNCHANGED <<o_main, pty_reader, stop_thread, o_child, o_winsize>>
    /\ UNCHANGED notOld

\* The client drops the connection.
OldHangup ==
    /\ ~o_eof
    /\ o_main = "join"
    /\ o_eof' = TRUE
    /\ UNCHANGED <<o_main, pty_writer, pty_reader, stop_thread, o_n, o_child, o_winsize,
                   o_pty_in, o_last>>
    /\ UNCHANGED notOld

\* socket_recv.next() yields None or Some(Err(_)): the loop ends.
WriterEnd ==
    /\ pty_writer = "recv"
    /\ o_eof
    /\ WriterFinish
    /\ o_last' = NoFrame
    /\ UNCHANGED <<o_main, pty_reader, o_n, o_eof, o_child, o_winsize>>
    /\ UNCHANGED notOld

\* The shell exits.
OldShellExit ==
    /\ o_child = "running"
    /\ o_child' = "exited"
    /\ UNCHANGED <<o_main, pty_writer, pty_reader, stop_thread, o_n, o_eof, o_winsize,
                   o_pty_in, o_last>>
    /\ UNCHANGED notOld

\* pty_reader: the read returns Ok; break if the stop flag is set, else
\* socket_send.send(..).await.unwrap(), which may panic once the connection has gone.
ReaderRead(ok) ==
    /\ pty_reader = "read"
    /\ ok \/ (o_eof /\ ~stop_thread)
    /\ pty_reader' = (IF stop_thread THEN "done" ELSE IF ok THEN "read" ELSE "panicked")
    /\ UNCHANGED <<o_main, pty_writer, stop_thread, o_n, o_eof, o_child, o_winsize, o_pty_in,
                   o_last>>
    /\ UNCHANGED notOld

\* pty_reader: the read returns Err once the shell has exited: break, and
\* stop_thread_read.store(true).
ReaderReadErr ==
    /\ pty_reader = "read"
    /\ o_child # "running"
    /\ pty_reader' = "done"
    /\ stop_thread' = TRUE
    /\ UNCHANGED <<o_main, pty_writer, o_n, o_eof, o_child, o_winsize, o_pty_in, o_last>>
    /\ UNCHANGED notOld

\* tokio::try_join!(pty_writer, pty_reader).unwrap(): a task that panicked
\* makes the join an Err and the unwrap panics.
JoinPanics ==
    /\ o_main = "join"
    /\ pty_writer = "panicked" \/ pty_reader = "panicked"
    /\ o_main' = "panicked"
    /\ UNCHANGED <<pty_writer, pty_reader, stop_thread, o_n, o_eof, o_child, o_winsize,
                   o_pty_in, o_last>>
    /\ UNCHANGED notOld

\* Both tasks ended: (*cmd.write().await).kill()
JoinKill ==
    /\ o_main = "join"
    /\ pty_writer = "done" /\ pty_reader = "done"
    /\ o_main' = "closed"
    /\ o_child' = "killed"
    /\ UNCHANGED <<pty_writer, pty_reader, stop_thread, o_n, o_eof, o_winsize, o_pty_in,
                   o_last>>
    /\ UNCHANGED notOld

PtyWriter ==
    \/ \E f \in TermFrames :
          WriterStopped(f) \/ WriterResize(f) \/ WriterBadResize(f) \/ WriterWrite(f)
    \/ WriterEnd

PtyReader == (\E ok \in BOOLEAN : ReaderRead(ok)) \/ ReaderReadErr

-----------------------------------------------------------------------------
(* create_zip_file: the archive `dl` builds from a directory walk.         *)

\* What an entry of the walk can be: a file that is read, a directory, an
\* entry WalkDir reports as Err, a file File::open fails on, a file
\* read_to_end fails on, and an entry whose name is not UTF-8.
EntryKinds == {"file", "dir", "walk_err", "open_err", "read_err", "bad_name"}

Trees == UNION {[1..n -> EntryKinds] : n \in 0..MaxEntries}

\* The bytes of the file that is entry i of the walk.
Content(i) == <<i>>

\* An entry of the archive: the walk entry it was made for and its bytes.
ZipEntry(i, kind, data) == [name |-> i, kind |-> kind, data |-> data]

InitZip ==
    /\ z_pc = "walk"
    /\ z_tree \in Trees
    /\ z_i = 0
    /\ zip_file = <<>>
    /\ file_buf = <<>>

ParkZip ==
    /\ z_pc = "done"
    /\ z_tree = <<>>
    /\ z_i = 0
    /\ zip_file = <<>>
    /\ file_buf = <<>>

\* for entry in WalkDir::new(&src_path): the next entry is of this kind.
ZipTake(kind) ==
    /\ z_pc = "walk"
    /\ z_i < Len(z_tree)
    /\ z_tree[z_i + 1] = kind
    /\ z_i' = z_i + 1

\* entry.context(..)? : an Err entry makes create_zip_file return the error.
ZipWalkErr ==
    /\ ZipTake("walk_err")
    /\ z_pc' = "failed"
    /\ UNCHANGED <<z_tree, zip_file, file_buf>>
    /\ UNCHANGED notZip

\* name.to_str() fails: handle_error!(.., continue).
ZipBadName ==
    /\ ZipTake("bad_name")
    /\ UNCHANGED <<z_pc, z_tree, zip_file, file_buf>>
    /\ UNCHANGED notZip

\* A file: start_file, open, read_to_end, write_all(&file_buf), file_buf.clear().
ZipFile ==
    /\ ZipTake("file")
    /\ zip_file' = Append(zip_file, ZipEntry(z_i + 1, "file", file_buf \o Content(z_i + 1)))
    /\ file_buf' = <<>>
    /\ UNCHANGED <<z_pc, z_tree>>
    /\ UNCHANGED notZip

\* A file File::open fails on: start_file has already added the entry; continue.
ZipOpenErr ==
    /\ ZipTake("open_err")
    /\ zip_file' = Append(zip_file, ZipEntry(z_i + 1, "file", <<>>))
    /\ UNCHANGED <<z_pc, z_tree, file_buf>>
    /\ UNCHANGED notZip

\* A file read_to_end fails on, after it appended the bytes it had read
\* (some or none) to file_buf: continue, without file_buf.clear().
ZipReadErr(partial) ==
    /\ ZipTake("read_err")
    /\ zip_file' = Append(zip_file, ZipEntry(z_i + 1, "file", <<>>))
    /\ file_buf' = (IF partial THEN file_buf \o Content(z_i + 1) ELSE file_buf)
    /\ UNCHANGED <<z_pc, z_tree>>
    /\ UNCHANGED notZip

\* A directory: add_directory.
ZipDir ==
    /\ ZipTake("dir")
    /\ zip_file' = Append(zip_file, ZipEntry(z_i + 1, "dir", <<>>))
    /\ UNCHANGED <<z_pc, z_tree, file_buf>>
    /\ UNCHANGED notZip

\* The walk is over: zip_file.finish(), Ok(buf).
ZipFinish ==
    /\ z_pc = "walk"
    /\ z_i = Len(z_tree)
    /\ z_pc' = "done"
    /\ UNCHANGED <<z_tree, z_i, zip_file, file_buf>>
    /\ UNCHANGED notZip

-----------------------------------------------------------------------------
(* Specifications: one per part, the other parts parked.                   *)

InitValidate ==
    /\ InitToken
    /\ ParkRouter
    /\ ParkFile
    /\ ParkDl
    /\ ParkTerm
    /\ ParkOld
    /\ ParkZip

NextValidate == Validate /\ UNCHANGED notToken

SpecValidate == InitValidate /\ [][NextValidate]_vars

InitSocket ==
    /\ pass \in BOOLEAN
    /\ now = Leeway + 1
    /\ ParkToken
    /\ InitRouter
    /\ ParkFile
    /\ ParkDl
    /\ ParkTerm
    /\ ParkOld
    /\ ParkZip

NextSocket ==
    \/ \E f \in ClientFrames : ClientSend(f)
    \/ ReaderTask
    \/ DispatchLoop
    \/ HandlersTick
    \/ HandlersRecv
    \/ HandlersReturn

SpecSocket == InitSocket /\ [][NextSocket]_vars

\* The tokio runtime runs every task that can make progress; the client owes nothing.
FairSocket ==
    /\ SpecSocket
    /\ WF_vars(ReaderTask)
    /\ WF_vars(DispatchLoop)
    /\ WF_vars(HandlersTick)
    /\ WF_vars(HandlersRecv)
    /\ WF_vars(HandlersReturn)

InitFileSpec ==
    /\ pass \in BOOLEAN
    /\ now = Leeway + 1
    /\ ParkToken
    /\ ParkRouter
    /\ InitFile
    /\ ParkDl
    /\ ParkTerm
    /\ ParkOld
    /\ ParkZip

NextFile ==
    \/ FileEnd
    \/ \E d \in ChunkData, ok \in BOOLEAN : FileBinary(d, ok)
    \/ FileGarbage
    \/ \E t \in {TokGood, TokEmpty} : FileUnauthorized(t)
    \/ \E p \in UpPaths, a \in UpArgs, t \in {TokGood, TokEmpty} : FileUp(p, a, t)
    \/ \E p \in UpPaths, a \in UpArgs, t \in {TokGood, TokEmpty} : FileUpInvalid(p, a, t)
    \/ \E t \in {TokGood, TokEmpty} : FileOpen(t)
    \/ \E t \in {TokGood, TokEmpty} : FileOpenFails(t)
    \/ \E a \in SaveArgs, t \in {TokGood, TokEmpty} : FileSave(a, t)

SpecFile == InitFileSpec /\ [][NextFile]_vars

InitDlSpec ==
    /\ pass = FALSE
    /\ now = Leeway + 1
    /\ ParkToken
    /\ ParkRouter
    /\ ParkFile
    /\ InitDl
    /\ ParkTerm
    /\ ParkOld
    /\ ParkZip

NextDl == DlAnnounce \/ DlChunk \/ DlDone

SpecDl == InitDlSpec /\ [][NextDl]_vars

InitTermSpec ==
    /\ pass \in BOOLEAN
    /\ now = Leeway + 1
    /\ ParkToken
    /\ ParkRouter
    /\ ParkFile
    /\ ParkDl
    /\ InitTerm
    /\ ParkOld
    /\ ParkZip

NextTerm ==
    \/ \E f \in TermFrames : TermAuthOk(f) \/ TermAuthFail(f)
    \/ TermAuthNoFrame
    \/ TermSpawn
    \/ TermSpawnFails
    \/ TermHangup
    \/ ShellExit
    \/ ReadPump
    \/ TermSelect
    \/ TermReapLock
    \/ TermReap

SpecTerm == InitTermSpec /\ [][NextTerm]_vars

\* The runtime runs the read pump and the function body whenever they can
\* take a step, and select! leaves no ready branch out forever. The shell
\* exits once it has been sent "exit\n", and a read of the pseudoterminal of
\* an exited shell fails in the end. The client owes nothing.
FairTerm ==
    /\ SpecTerm
    /\ WF_vars(PumpLock)
    /\ WF_vars(PumpSend)
    /\ SF_vars(PumpReadErr)
    /\ WF_vars(TermSocketClosed)
    /\ WF_vars(TermQuit)
    /\ WF_vars(TermReapLock)
    /\ WF_vars(TermReap)
    /\ WF_vars(ShellExit /\ exits > 0)

InitOldSpec ==
    /\ pass \in BOOLEAN
    /\ now = Leeway + 1
    /\ ParkToken
    /\ ParkRouter
    /\ ParkFile
    /\ ParkDl
    /\ ParkTerm
    /\ InitOld
    /\ ParkZip

NextOld ==
    \/ PtyWriter
    \/ PtyReader
    \/ OldHangup
    \/ OldShellExit
    \/ JoinPanics
    \/ JoinKill

SpecTermOld == InitOldSpec /\ [][NextOld]_vars

InitZipSpec ==
    /\ pass \in BOOLEAN
    /\ now = Leeway + 1
    /\ ParkToken
    /\ ParkRouter
    /\ ParkFile
    /\ ParkDl
    /\ ParkTerm
    /\ ParkOld
    /\ InitZip

NextZip ==
    \/ ZipWalkErr
    \/ ZipBadName
    \/ ZipFile
    \/ ZipOpenErr
    \/ \E partial \in BOOLEAN : ZipReadErr(partial)
    \/ ZipDir
    \/ ZipFinish

SpecZip == InitZipSpec /\ [][NextZip]_vars

\* The three endpoints, one connection at a time: a behaviour is one
\* connection to the control, the file or the terminal endpoint.
InitEndpoints == InitSocket \/ InitFileSpec \/ InitTermSpec

NextEndpoints == NextSocket \/ NextFile \/ NextTerm

SpecEndpoints == InitEndpoints /\ [][NextEndpoints]_vars

-----------------------------------------------------------------------------
(* Claims about socket_handler *)

PageEntries == {i \in 1..Len(out) : out[i].k = "page"}

\* C1: at most one page handler is active at any instant; a handler is running
\* only while the dispatch loop is inside its call, and the outbound frames of
\* one handler instance form one run (no other handler's output in between).
C1_OneActiveHandler ==
    /\ Cardinality(running) <= 1
    /\ (running # {} => router = "handler")
    /\ \A i, j \in PageEntries : out[i].id = out[j].id => i = j

\* A second handler runs after the first one returned, and both produced output.
C1_Witness ==
    /\ running # {}
    /\ \E i, j \in PageEntries : i < j /\ out[i].id # out[j].id

\* C2: an authorized page-switch to a recognized page P read while a handler
\* for another page is active leads to the handler for P being started (or to
\* a later frame being read).
C2_PageSwitchTakesEffect == (want # "none") ~> (want = "none")

\* C3: with password protection every Request with a failing token is
\* eventually answered with an {error:true} frame, and a later valid
\* page-switch to "/" starts the "/" handler.
C3_RejectedGetsNotice ==
    /\ \A n \in 1..(MaxFrames + 1) : (rejected >= n) ~> (notices >= n)
    /\ relogin ~> ~relogin

\* C4: once a Request with an invalid token has been read, no handler sends
\* page content until a Request with a valid token has been read, and the
\* rejected Request itself never reaches the dispatch loop or a handler.
C4_NoContentWhileDenied ==
    /\ \A i \in PageEntries : ~out[i].den
    /\ \A i \in 1..Len(data_chan) : Authorized(data_chan[i]) \/ data_chan[i].syn
    /\ \A d \in fwd : Authorized(d.req) \/ d.req.syn

\* C11: a Request with non-empty cmd never starts or replaces a page handler;
\* it only ever reaches a handler that was already active, as a command.
C11_CommandStartsNoHandler == \A h \in running : h.cmd = ""

\* The reader task reads an authorized Request whose page is outside the vocabulary.
UnknownPageRead ==
    /\ reader = "recv"
    /\ socket_recv # <<>>
    /\ IsRequest(Head(socket_recv))
    /\ Authorized(Head(socket_recv))
    /\ Head(socket_recv).page \notin HandlerPages \cup {"/login"}
    /\ read_log' # read_log

\* C12: a Request naming a page outside the vocabulary changes no handler:
\* the active handler is neither cancelled nor replaced by it.
C12_UnknownPageIgnored ==
    [][UnknownPageRead => (notified' = notified /\ running' = running)]_vars

\* The reader task reads a frame that does not decode into a Request.
GarbageRead ==
    /\ reader = "recv"
    /\ socket_recv # <<>>
    /\ Head(socket_recv).k = "garbage"
    /\ read_log' # read_log

\* C13: a frame that does not decode is skipped: the reader task stays in its
\* loop ready for the next frame, and no handler is started, cancelled or
\* sent anything, and nothing is sent to the client, because of it.
C13_UndecodableSkipped ==
    [][GarbageRead =>
          /\ reader' = "recv"
          /\ sender_dropped' = sender_dropped
          /\ notified' = notified
          /\ running' = running
          /\ data_chan' = data_chan
          /\ req' = req
          /\ fwd' = fwd
          /\ out' = out]_vars

\* A frame that did not decode was read, and a page-switch read after it
\* started its handler.
C13_Witness ==
    \E i, j \in 1..Len(read_log) :
        /\ i < j
        /\ read_log[i].k = "garbage"
        /\ IsRequest(read_log[j])
        /\ \E h \in running : h.page = read_log[j].page /\ h.cmd = ""

\* C14: the global snapshot is sent exactly once and is the first outbound
\* frame: it precedes every handler output and every error notice.
C14_GlobalFirst ==
    /\ out # <<>> => out[1] = GlobalFrame
    /\ \A i \in 2..Len(out) : out[i].k # "global"
    /\ router # "global" => out # <<>>

\* The global snapshot was followed by page content and by an error notice.
C14_Witness ==
    /\ Len(out) >= 3
    /\ \E i \in 1..Len(out) : out[i].k = "page"
    /\ \E i \in 1..Len(out) : out[i].k = "error"

\* C15: when the connection closes while a handler is active, the handler is
\* cancelled and stops, and socket_handler returns.
C15_RouterTerminates == (reader = "done" /\ running # {}) ~> (router = "returned")

-----------------------------------------------------------------------------
(* Claims about file_handler *)

\* C5: for an `up` declaring N >= 1 chunks the destination is written exactly
\* when N binary frames have been received after it: a write made since the
\* `up` was made on the N-th frame and to the declared path, and once N frames
\* have arrived the write has been made.
C5_UploadCommit ==
    (up_seen /\ up_n >= 1) =>
        /\ (wrote.made => wrote.after = up_n /\ wrote.path = up_path)
        /\ (Len(since_up) >= up_n => wrote.made)

\* C6: an `up` on a connection that already received binary frames starts
\* afresh: it commits after exactly M further frames and the file written
\* holds the bytes of those M frames only.
C6_UpResetsState ==
    (up_seen /\ up_n >= 1 /\ pre_bins > 0) =>
        /\ (wrote.made => wrote.after = up_n /\ wrote.fresh)
        /\ (Len(since_up) >= up_n => wrote.made)

\* C7: the announced size n is the ceiling of L / 1,000,000; the frames are
\* consecutive ranges of the archive starting at 0, each 1,000,000 bytes except
\* the last, which holds the remainder (1..1,000,000 bytes); when `dl` is done
\* n frames were sent and they cover the archive exactly.
C7_DownloadChunking ==
    /\ dl_pc # "start" =>
        /\ dl_size * ChunkBytes >= dl_len
        /\ (dl_size - 1) * ChunkBytes < dl_len \/ (dl_size = 0 /\ dl_len = 0)
    /\ Len(dl_sent) <= dl_size
    /\ \A i \in 1..Len(dl_sent) :
        /\ dl_sent[i][1] = (IF i = 1 THEN 0 ELSE dl_sent[i - 1][2])
        /\ dl_sent[i][1] < dl_sent[i][2]
        /\ i < dl_size => dl_sent[i][2] - dl_sent[i][1] = ChunkBytes
        /\ i = dl_size =>
            /\ dl_sent[i][2] - dl_sent[i][1] <= ChunkBytes
            /\ dl_sent[i][2] = dl_len
    /\ dl_pc = "done" =>
        /\ Len(dl_sent) = dl_size
        /\ (dl_size = 0 => dl_len = 0)

\* A download of several frames whose last frame is short has completed.
C7_Witness ==
    /\ dl_pc = "done"
    /\ dl_size >= 2
    /\ dl_sent[dl_size][2] - dl_sent[dl_size][1] < ChunkBytes

-----------------------------------------------------------------------------
(* Claims about validate_token *)

\* C8: validate_token returns false if expires-at <= now, if the issuer is
\* not the fixed issuer, or if the signature does not verify with the shared
\* secret; it returns true only when all three checks pass and the issued-at
\* and expires-at claims are present.
C8_ValidateToken ==
    v_done =>
        /\ (\/ (v_token.exp # Absent /\ v_token.exp <= now)
            \/ v_token.iss # Issuer
            \/ ~v_token.jwt
            \/ v_token.key # "secret") => ~v_result
        /\ v_result => /\ v_token.exp # Absent /\ v_token.exp > now
                       /\ v_token.iat # Absent
                       /\ v_token.iss = Issuer
                       /\ v_token.jwt /\ v_token.key = "secret"

-----------------------------------------------------------------------------
(* Claims about term_handler *)

\* C9: with password protection enabled, a child process is spawned only
\* after a first frame that is "token" followed by a token validate_token
\* accepts; in every other case term_handler ends without spawning.
C9_TermAuthGate == (pass /\ child # "none") => t_first = "token_ok"

\* C10: a "size" frame with a well-formed payload sets the window size to
\* (rows, cols) and the session keeps running; one with a malformed payload
\* changes nothing, is not written to the pseudoterminal and does not close
\* the session. Stated for term_handler of terminal.rs.
C10_Resize ==
    /\ o_last.did = "resize" =>
          /\ o_winsize = [row |-> o_last.f.size.rows, col |-> o_last.f.size.cols]
          /\ pty_writer = "recv"
    /\ (/\ o_last.f.k = "text" /\ o_last.f.pre = "size" /\ ~SizeParses(o_last.f.size)
        /\ o_last.did # "stop") =>
          pty_writer = "recv"

\* C10, for term_handler of socket_handlers.rs: the same statement; the
\* session keeps running means the select loop is still the one in control.
C10_ResizeSelectLoop ==
    /\ t_last.did = "resize" =>
          /\ winsize = [row |-> t_last.f.size.rows, col |-> t_last.f.size.cols]
          /\ t_pc \in {"loop", "reap", "wait", "closed"}
    /\ (t_last.f.k = "text" /\ t_last.f.pre = "size" /\ ~SizeParses(t_last.f.size)) =>
          t_last.did = "skip"

\* file_handler reads an `up` whose argument does not parse.
InvalidUpStep == f_last' = "up_invalid" /\ f_n' = f_n + 1

\* C17: an `up` whose size argument is not a decimal number commits nothing:
\* destination path, declared total, buffer and received count are
\* unchanged, nothing is written or sent, and file_handler stays in its loop.
C17_InvalidUpNoCommit ==
    [][InvalidUpStep =>
          /\ path' = path /\ max_size' = max_size
          /\ buf' = buf /\ current_size' = current_size
          /\ fs' = fs /\ disk' = disk /\ wrote' = wrote
          /\ f_out' = f_out
          /\ f_pc' = "loop"]_vars

\* An `up` that does not parse was read in the middle of an upload.
C17_Witness ==
    /\ f_last = "up_invalid"
    /\ up_seen /\ path # "" /\ max_size > current_size /\ buf # <<>>

\* file_handler reads an `open` that fails.
FailedOpenStep == f_last' = "open_failed" /\ f_n' = f_n + 1

\* C19: `save` of the text the last `open` returned leaves the file with the
\* bytes it had when it was opened; an `open` that fails sends no frame,
\* changes no state and leaves file_handler in its loop.
C19_OpenSaveRoundTrip ==
    /\ [](f_last = "save_back" => disk = [st |-> "ok", bytes |-> opened.orig])
    /\ [][FailedOpenStep =>
            /\ opened' = opened /\ f_out' = f_out
            /\ disk' = disk /\ fs' = fs
            /\ path' = path /\ max_size' = max_size
            /\ buf' = buf /\ current_size' = current_size
            /\ f_pc' = "loop"]_vars

\* A file holding a two-byte character was opened, overwritten with another
\* text, and saved back.
C19_Witness ==
    /\ f_last = "save_back"
    /\ opened.orig = <<"C3", "A9">>
    /\ disk.bytes = opened.orig

-----------------------------------------------------------------------------
(* Claims about create_zip_file *)

\* C16: an I/O error on one entry (walking, opening or reading) skips only
\* that entry: create_zip_file does not return an error because of it, and
\* the archive it returns holds every other file with its own bytes and every
\* other directory.
C16_ZipSkipsFailedEntry ==
    /\ z_pc # "failed"
    /\ z_pc = "done" =>
          \A i \in 1..Len(z_tree) :
              /\ z_tree[i] = "file" =>
                    \E k \in 1..Len(zip_file) :
                        zip_file[k] = ZipEntry(i, "file", Content(i))
              /\ z_tree[i] = "dir" =>
                    \E k \in 1..Len(zip_file) : zip_file[k] = ZipEntry(i, "dir", <<>>)

-----------------------------------------------------------------------------
(* Claims about the three endpoints *)

\* C18: with password protection disabled no frame is rejected for its
\* token: the control endpoint never queues a "/login" Request, the terminal
\* endpoint goes to the spawn without consuming a token frame, and the file
\* endpoint refuses no command.
C18_NoPassNoRejection ==
    ~pass =>
        /\ rejected = 0
        /\ ~req.syn
        /\ \A i \in 1..Len(data_chan) : ~data_chan[i].syn
        /\ \A i \in 1..Len(out) : out[i].k # "error" \/ \E j \in 1..Len(read_log) :
                                        read_log[j].page = "/login"
        /\ t_first = "none" /\ t_pc # "auth"
        /\ (t_n > 0 => child # "none")
        /\ f_last # "unauthorized"

\* With password protection disabled a Request with an empty token was read
\* and its page's handler runs.
C18_Witness ==
    /\ ~pass
    /\ \E i \in 1..Len(read_log) :
          /\ IsRequest(read_log[i])
          /\ read_log[i].token = TokEmpty
          /\ \E h \in running : h.page = read_log[i].page

\* C20: in the terminal write pump every frame that is not a resize command
\* is written to the pseudoterminal, text frames that do not start with
\* "size" included. Stated for term_handler of socket_handlers.rs.
C20_FramesWritten ==
    (t_last.f.k \in {"text", "binary", "close"} /\ ~(t_last.f.k = "text" /\ t_last.f.pre = "size"))
        => t_last.did \in {"write", "write_failed"}

\* C20, for term_handler of terminal.rs: the same statement.
C20_FramesWrittenOld ==
    (/\ o_last.f.k \in {"text", "binary", "close"}
     /\ ~(o_last.f.k = "text" /\ o_last.f.pre = "size")
     /\ o_last.did # "stop")
        => o_last.did \in {"write", "write_failed"}

\* C21: when the terminal connection closes or a receive fails, the write
\* pump writes "exit\n" once and then stops: it does not go round the loop
\* again and it does not write a second time.
C21_ExitWrittenOnce == exits >= 1 => (exits = 1 /\ t_pc # "loop")

\* C22: after one pump has detected termination the other pump performs at
\* most one further pseudoterminal read or write.
C22_DrainingHandshake == ops_after <= 1

\* C23: once the reap has begun (the write lock is requested and .wait() is
\* called) no pseudoterminal read of the read pump is in progress, and none
\* starts afterwards.
C23_ReapAfterPumps == (t_pc \in {"wait", "closed"} /\ child # "none") => r_pc \notin {"idle", "read"}

\* C24: a read error and an end-of-file read both end the read pump: after
\* either, the pump has stopped and signalled, and sends no frame for the read.
C24_ReadEndStopsPump == r_last \in {"eof", "err"} => (r_pc = "done" /\ stop_by # "none")

\* C27: after the terminal connection has closed the bridge reaches Closed:
\* the child is reaped and term_handler returns, whichever way the select
\* loop is left.
C27_BridgeCloses == t_eof ~> (t_pc = "closed")

\* C28: the reader task never blocks for ever in data_send.send(..): a send
\* suspended on the full request channel completes, so that the frames behind
\* it are read.
C28_ReaderNeverStuck == (reader = "send") ~> (reader # "send")

\* C25: when a Request is rejected while a handler is active, that handler
\* has returned before the {error:true} notice is written (none of its output
\* follows the notice), and the synthetic "/login" Request is taken from the
\* channel by the dispatch loop, not by a handler as a command.
C25_CancelledBeforeNotice ==
    /\ [](\A c \in auth_cancelled : \A j \in 1..Len(out) :
            (out[j].k = "page" /\ out[j].id = c.id) => ErrorsIn(out, j) <= c.errs)
    /\ [][auth_cancelled # {} => \A d \in fwd' \ fwd : ~d.req.syn]_vars

\* C26: the {finished:true} notice is sent exactly when the accumulated
\* buffer has been written to the destination path: a notice is sent only
\* after an `up`, and none is sent for a write that failed.
C26_NoticeIffWritten ==
    [][(Len(f_out') > Len(f_out) /\ f_out'[Len(f_out')] = "finished") =>
          (up_seen /\ wrote'.ok)]_vars

\* C29: every file entry of the archive belongs to a file that was opened and
\* read, and holds exactly that file's bytes: nothing is carried over from an
\* earlier entry and a file that failed leaves no entry.
C29_EntriesHoldOwnBytes ==
    \A k \in 1..Len(zip_file) :
        zip_file[k].kind = "file" =>
            /\ z_tree[zip_file[k].name] = "file"
            /\ zip_file[k].data = Content(zip_file[k].name)

\* A frame is handled and the buffer is written (or the write is attempted).
WriteStep == f_n' = f_n + 1 /\ f_last' = "binary" /\ Len(f_out') > Len(f_out)

\* C30: with password protection enabled a text command whose token is not
\* valid reads nothing, writes nothing and leaves the upload state as it
\* was, and binary frames cause a write only to the path, and on the chunk
\* count, that an accepted `up` recorded.
C30_ValidTokenOnly ==
    [][pass =>
        /\ (f_n' = f_n + 1 /\ f_tok' = "invalid") =>
              UNCHANGED <<buf, max_size, current_size, path, fs, f_out, disk, opened>>
        /\ WriteStep =>
              /\ up_seen
              /\ wrote'.path = up_path
              /\ current_size' = up_n
              /\ \A q \in DOMAIN fs : q # up_path => fs'[q] = fs[q]
              /\ disk' = disk]_vars

\* An upload was committed after an accepted `up`, and a later command with
\* an invalid token has been skipped.
C30_Witness == pass /\ wrote.made /\ wrote.ok /\ f_tok = "invalid"

====
